---- MODULE Spec2Model ----
(***************************************************************************)
(* A model of pingo's plugin server (server.go): registration, the bind     *)
(* retry loop of run(), the handshake lines, the accept loop and the        *)
(* per-connection handler with its 64-byte authentication.                  *)
(*                                                                          *)
(* Strings that the code only stores and compares are TLA+ strings.  The    *)
(* secret, the bytes a peer sends and the random socket names are           *)
(* sequences of byte values: 0 is the NUL byte, 97 and 98 stand for the     *)
(* printable characters.                                                    *)
(***************************************************************************)
EXTENDS Integers, Sequences, FiniteSets, TLC

VARIABLES
    proc,      \* "alive" | "panicked" | "exited": the plugin process
    exitCode,  \* status given to os.Exit, -1 while none
    secret,    \* defaultServer.secret
    objs,      \* defaultServer.objs
    engine,    \* names bound in the embedded rpc.Server
    conf,      \* defaultServer.conf: proto, addr, prefix, unixdir
    running,   \* defaultServer.running
    pc,        \* position of the goroutine that calls Run
    alloc,     \* run's local conn: the address allocator
    i,         \* run's loop counter
    err,       \* run's local err: "nil" or an error
    listening, \* run's local listener: the bound address or NoAddr
    out,       \* lines written to the handshake channel
    taken,     \* environment: addresses on which net.Listen fails
    tried,     \* history: bind attempts of the current run call
    runs,      \* history: one record per call of Run
    reg,       \* the caller of Register: its position and argument
    regLog,    \* history: one record per call of Register
    conns,     \* accepted connections and their handlers
    acceptErrs,\* history: number of failed Accept calls
    authT,     \* authConn applied to arbitrary inputs
    tcpT,      \* tcp.addr applied to arbitrary cursors
    exitCalls  \* history: the status of every call of PingoRpc.Exit

vars == <<proc, exitCode, secret, objs, engine, conf, running, pc, alloc, i,
          err, listening, out, taken, tried, runs, reg, regLog, conns,
          acceptErrs, authT, tcpT, exitCalls>>

serverVars == <<proc, exitCode, secret, objs, engine, conf, running, pc,
                alloc, i, err, listening, out, taken, tried, runs, reg,
                regLog, conns, acceptErrs, exitCalls>>

(***************************************************************************)
(* Bounds of the model.                                                     *)
(***************************************************************************)
MaxRegs == 1        \* calls of Register
MaxRuns == 2        \* calls of Run
MaxConns == 2       \* accepted connections
MaxAcceptErrs == 2  \* failed Accept calls
MaxCalls == 5       \* calls of tcp.addr on one cursor

(***************************************************************************)
(* Program constants.                                                       *)
(***************************************************************************)
SecretLen == 64
BufLen == 64
NameLen == 8
MinPort == 1024
TcpRetries == 500
UnixRetries == 4
MaxInt == 2147483647

\* Go's int is 32 or 64 bits wide; the model takes the 32-bit build.  The
\* smallest value is written as a difference to stay inside that range.
MinInt == (-MaxInt) - 1

Printable == {97, 98}
Bytes == {0} \cup Printable

\* A string of n bytes: k times the byte x, then the byte y.
Fill(n, k, x, y) == [j \in 1..n |-> IF j <= k THEN x ELSE y]

\* randstr(n): n printable characters.  Two of its values are enumerated.
RandStr(n) == {Fill(n, n - 1, 97, y) : y \in Printable}

(***************************************************************************)
(* authConn: the buffer starts zeroed, io.ReadFull copies what the stream   *)
(* delivers (at most BufLen bytes) and its error is dropped.                *)
(***************************************************************************)
\* io.ReadFull returns once the buffer is full or the stream has ended.
ReadFullReturns(conn) == Len(conn.data) >= BufLen \/ conn.eof

ReadFullCount(conn) == IF Len(conn.data) >= BufLen THEN BufLen ELSE Len(conn.data)

ReadFullBuf(conn) ==
    [j \in 1..BufLen |-> IF j <= Len(conn.data) THEN conn.data[j] ELSE 0]

authConn(conn, s) == ReadFullBuf(conn) = s

(***************************************************************************)
(* tcp.addr and tcp.retries; unix.addr and unix.retries.                    *)
(***************************************************************************)
NoAddr == [host |-> "", port |-> 0, dir |-> "", name |-> <<>>]

IntAdd1(n) == IF n = MaxInt THEN MinInt ELSE n + 1

tcpClamp(t) == IF t < MinPort THEN MinPort - 1 ELSE t

\* Faulty variant of tcpNext: the cursor is not raised to the unprivileged range.
tcpNextNoClamp(t) == IntAdd1(t)

tcpNext(t) == IntAdd1(tcpClamp(t))

\* fmt.Sprintf("127.0.0.1:%d", port)
TcpAddress(port) == [host |-> "127.0.0.1", port |-> port, dir |-> "", name |-> <<>>]

tcpAddr(t) == TcpAddress(tcpNext(t))

\* path.Join(u, name) followed by filepath.FromSlash, for a directory u
\* that is already clean.
unixAddr(u, name) == [host |-> "", port |-> 0, dir |-> u, name |-> name]

\* Faulty variant of retries: one attempt too many.
retriesOffByOne(a) == IF a.kind = "tcp" THEN TcpRetries + 1 ELSE UnixRetries + 1

retries(a) == IF a.kind = "tcp" THEN TcpRetries ELSE UnixRetries

(***************************************************************************)
(* The handshake channel: meta(prefix).output(key, value) writes one line.  *)
(***************************************************************************)
Line(prefix, key, val) == [prefix |-> prefix, key |-> key, val |-> val]

output(key, val) == Append(out, Line(conf.prefix, key, val))

\* The lines of a sequence that carry a given key.
Keyed(lines, key) == SelectSeq(lines, LAMBDA l : l.key = key)

(***************************************************************************)
(* Inputs.                                                                  *)
(***************************************************************************)
Protos == {"unix", "tcp", "udp"}
UnixDirs == {"", "/tmp"}
ObjNames == {"Arith"}

\* An object given to Register: its declared type name, and whether the
\* value is a pointer to the type or the bare struct value.
Objects == [name : ObjNames, ptr : BOOLEAN]
NoObj == [name |-> "", ptr |-> FALSE]
PingoRpcObj == [name |-> "PingoRpc", ptr |-> TRUE]

\* Addresses taken when the process starts.  For tcp: the first k ports
\* from MinPort on.  For unix: any of the names randstr can return.
TcpTakenFirst(k) == {TcpAddress(p) : p \in MinPort..(MinPort + k - 1)}
UnixNames == {unixAddr("", n) : n \in RandStr(NameLen)}

\* A few environments, for the specification of the whole program.
TakenChoices(p) ==
    IF p = "tcp" THEN {TcpTakenFirst(0), TcpTakenFirst(3), TcpTakenFirst(TcpRetries)}
    ELSE {{}, UnixNames}

\* More environments, for the specification of the bootstrap alone.
BootTakenChoices(p) ==
    IF p = "tcp"
    THEN {TcpTakenFirst(k) : k \in {0, 1, 3, TcpRetries - 1, TcpRetries, TcpRetries + 1}}
    ELSE SUBSET UnixNames

\* What a peer sends on a fresh connection, for the secret s: the secret,
\* the secret with its last byte changed, one byte less than the secret and
\* then silence, one byte less and then the end of the stream.
FlipLast(s) == [j \in 1..Len(s) |-> IF j = Len(s) THEN (IF s[j] = 97 THEN 98 ELSE 97) ELSE s[j]]
Streams(s) ==
    { [data |-> s, eof |-> FALSE],
      [data |-> FlipLast(s), eof |-> FALSE],
      [data |-> SubSeq(s, 1, Len(s) - 1), eof |-> FALSE],
      [data |-> SubSeq(s, 1, Len(s) - 1), eof |-> TRUE] }

ExitStatuses == {0, 7}

(***************************************************************************)
(* newRpcServer and rpcServer.register.                                     *)
(***************************************************************************)
\* reflect.TypeOf(obj).Elem() panics unless obj is a pointer.
ElemPanics(obj) == ~obj.ptr

registerObjs(l, obj) == Append(l, obj.name)

\* rpc.Server.Register binds the name unless it is bound already; its error
\* is dropped.
registerEngine(e, obj) == e \cup {obj.name}

IdleAuthT == [secret |-> <<>>, conn |-> [data |-> <<>>, eof |-> TRUE],
              done |-> FALSE, res |-> FALSE]
IdleTcpT == [start |-> 0, t |-> 0, calls |-> <<>>]

newRpcServer(s, p, d, tk) ==
    /\ proc = "alive"
    /\ exitCode = -1
    /\ secret = s
    /\ objs = registerObjs(<<>>, PingoRpcObj)
    /\ engine = registerEngine({}, PingoRpcObj)
    /\ conf = [proto |-> p, addr |-> NoAddr, prefix |-> "pingo", unixdir |-> d]
    /\ running = FALSE
    /\ pc = "idle"
    /\ alloc = [kind |-> "none", t |-> 0, u |-> ""]
    /\ i = 0
    /\ err = "nil"
    /\ listening = NoAddr
    /\ out = <<>>
    /\ taken = tk
    /\ tried = <<>>
    /\ runs = <<>>
    /\ reg = [pc |-> "idle", obj |-> NoObj]
    /\ regLog = <<>>
    /\ conns = <<>>
    /\ acceptErrs = 0
    /\ exitCalls = <<>>

\* The whole program, with the flag default for pingo:unixdir.
\* The secret of the runs with connections: one of the values of randstr.
OneSecret == {Fill(SecretLen, SecretLen - 1, 97, 98)}

Init ==
    /\ \E s \in OneSecret, p \in Protos, d \in {""} :
          \E tk \in TakenChoices(p) : newRpcServer(s, p, d, tk)
    /\ authT = IdleAuthT
    /\ tcpT = IdleTcpT

InitBoot ==
    /\ \E s \in RandStr(SecretLen), p \in Protos \cup {""}, d \in UnixDirs :
          \E tk \in BootTakenChoices(p) : newRpcServer(s, p, d, tk)
    /\ authT = IdleAuthT
    /\ tcpT = IdleTcpT

(***************************************************************************)
(* Register (lines 21-26), in two steps: the test of running, then          *)
(* register (lines 101-105).  A caller on another goroutine can be          *)
(* overtaken by Run between the two.                                        *)
(***************************************************************************)
SetLast(log, r) == [log EXCEPT ![Len(log)] = r]

RegisterPanics(obj) == running

RegisterCall(obj) ==
    /\ proc = "alive"
    /\ reg.pc = "idle"
    /\ Len(regLog) < MaxRegs
    /\ IF RegisterPanics(obj)
       THEN /\ proc' = "panicked"
            /\ regLog' = Append(regLog, [obj |-> obj, running |-> running,
                                         result |-> "panic", before |-> objs,
                                         after |-> objs])
            /\ reg' = reg
       ELSE /\ reg' = [pc |-> "checked", obj |-> obj]
            /\ regLog' = Append(regLog, [obj |-> obj, running |-> running,
                                         result |-> "pending", before |-> objs,
                                         after |-> objs])
            /\ proc' = proc
    /\ UNCHANGED <<exitCode, secret, objs, engine, conf, running, pc, alloc, i,
                   err, listening, out, taken, tried, runs, conns, acceptErrs,
                   authT, tcpT,
                   exitCalls>>

RegisterDo ==
    /\ proc = "alive"
    /\ reg.pc = "checked"
    /\ IF ElemPanics(reg.obj)
       THEN /\ proc' = "panicked"
            /\ regLog' = SetLast(regLog, [regLog[Len(regLog)] EXCEPT !.result = "panic"])
            /\ UNCHANGED <<objs, engine>>
       ELSE /\ objs' = registerObjs(objs, reg.obj)
            /\ engine' = registerEngine(engine, reg.obj)
            /\ regLog' = SetLast(regLog, [regLog[Len(regLog)] EXCEPT
                                             !.result = "ok", !.after = objs'])
            /\ proc' = proc
    /\ reg' = [pc |-> "idle", obj |-> NoObj]
    /\ UNCHANGED <<exitCode, secret, conf, running, pc, alloc, i, err,
                   listening, out, taken, tried, runs, conns, acceptErrs,
                   authT, tcpT,
                   exitCalls>>

(***************************************************************************)
(* Run (lines 28-31) and rpcServer.run (lines 142-184).                     *)
(***************************************************************************)
\* Line 147.  Run is called on a process that has not called it, or again
\* after a call that returned the bind failure.
RunEnter ==
    /\ proc = "alive"
    /\ pc \in {"idle", "returned"}
    /\ Len(runs) < MaxRuns
    /\ running' = TRUE
    /\ pc' = "objects"
    /\ alloc' = [kind |-> "none", t |-> 0, u |-> ""]
    /\ i' = 0
    /\ err' = "nil"
    /\ listening' = NoAddr
    /\ tried' = <<>>
    /\ runs' = Append(runs, [start |-> Len(out), proto |-> conf.proto,
                             state |-> "active", accepted |-> 0])
    /\ UNCHANGED <<proc, exitCode, secret, objs, engine, conf, out, taken,
                   reg, regLog, conns, acceptErrs, authT, tcpT,
                   exitCalls>>

\* Lines 149-150.
RunObjects ==
    /\ proc = "alive"
    /\ pc = "objects"
    /\ out' = output("objects", objs)
    /\ pc' = "switch"
    /\ UNCHANGED <<proc, exitCode, secret, objs, engine, conf, running, alloc,
                   i, err, listening, taken, tried, runs, reg, regLog, conns,
                   acceptErrs, authT, tcpT,
                   exitCalls>>

\* Faulty variant of SchemeOf: the configured value is kept as it is.
SchemeOfKept(p) == p

\* Lines 152-158: new(tcp) is the cursor 0, new(unix) the empty directory.
SchemeOf(p) == IF p = "tcp" THEN "tcp" ELSE "unix"

RunSwitch ==
    /\ proc = "alive"
    /\ pc = "switch"
    /\ conf' = [conf EXCEPT !.proto = SchemeOf(conf.proto)]
    /\ alloc' = [kind |-> SchemeOf(conf.proto), t |-> 0, u |-> ""]
    /\ i' = 0
    /\ pc' = "loop"
    /\ UNCHANGED <<proc, exitCode, secret, objs, engine, running, err,
                   listening, out, taken, tried, runs, reg, regLog, conns,
                   acceptErrs, authT, tcpT,
                   exitCalls>>

\* net.Listen(proto, addr) fails on an address in use.
ListenFails(a) == a \in taken

\* Faulty variant of LoopBreaks: the break is missing.
LoopNeverBreaks(e) == FALSE

\* Whether the loop is left after an attempt that ended with e.
LoopBreaks(e) == e = "nil"

\* Lines 160-166, one iteration: conn.addr(), net.Listen, the break.
RunListen(name) ==
    /\ proc = "alive"
    /\ pc = "loop"
    /\ i < retries(alloc)
    /\ LET a == IF alloc.kind = "tcp" THEN tcpAddr(alloc.t)
                ELSE unixAddr(alloc.u, name)
           e == IF ListenFails(a) THEN "EADDRINUSE" ELSE "nil"
       IN /\ alloc' = IF alloc.kind = "tcp"
                      THEN [alloc EXCEPT !.t = tcpNext(alloc.t)]
                      ELSE alloc
          /\ conf' = [conf EXCEPT !.addr = a]
          /\ err' = e
          /\ listening' = IF e = "nil" THEN a ELSE listening
          /\ tried' = Append(tried, [proto |-> conf.proto, addr |-> a,
                                     ok |-> e = "nil", outLen |-> Len(out)])
          /\ IF LoopBreaks(e)
             THEN /\ pc' = "afterloop"
                  /\ i' = i
             ELSE /\ pc' = "loop"
                  /\ i' = i + 1
    /\ UNCHANGED <<proc, exitCode, secret, objs, engine, running, out, taken,
                   runs, reg, regLog, conns, acceptErrs, authT, tcpT,
                   exitCalls>>

\* Line 160: the loop condition fails.
RunLoopEnd ==
    /\ proc = "alive"
    /\ pc = "loop"
    /\ ~(i < retries(alloc))
    /\ pc' = "afterloop"
    /\ UNCHANGED <<proc, exitCode, secret, objs, engine, conf, running, alloc,
                   i, err, listening, out, taken, tried, runs, reg, regLog,
                   conns, acceptErrs, authT, tcpT,
                   exitCalls>>

SetState(st) == [runs EXCEPT ![Len(runs)].state = st]

\* Faulty variant of FatalConnFailed: the last loop index as the count.
FatalConnFailedLastIndex ==
    [code |-> "errorCodeConnFailed", attempts |-> retries(alloc) - 1,
     proto |-> conf.proto]

FatalConnFailed ==
    [code |-> "errorCodeConnFailed", attempts |-> retries(alloc),
     proto |-> conf.proto]

\* Lines 168-171.
RunFail ==
    /\ proc = "alive"
    /\ pc = "afterloop"
    /\ err # "nil"
    /\ out' = output("fatal", FatalConnFailed)
    /\ pc' = "returned"
    /\ runs' = SetState("failed")
    /\ UNCHANGED <<proc, exitCode, secret, objs, engine, conf, running, alloc,
                   i, err, listening, taken, tried, reg, regLog, conns,
                   acceptErrs, authT, tcpT,
                   exitCalls>>

\* Line 173: the token written is defaultServer.secret; run's receiver is
\* defaultServer, the only server the package constructs.
\* Faulty variant of TokenEmitted: another string than the server's secret.
TokenFresh == Fill(SecretLen, 0, 98, 98)

TokenEmitted == secret

RunToken ==
    /\ proc = "alive"
    /\ pc = "afterloop"
    /\ err = "nil"
    /\ out' = output("auth-token", TokenEmitted)
    /\ pc' = "ready"
    /\ UNCHANGED <<proc, exitCode, secret, objs, engine, conf, running, alloc,
                   i, err, listening, taken, tried, runs, reg, regLog, conns,
                   acceptErrs, authT, tcpT,
                   exitCalls>>

\* Faulty variant of ReadyValue: the first candidate, not the bound one.
ReadyValueFirstTried == [proto |-> conf.proto, addr |-> tried[1].addr]

ReadyValue == [proto |-> conf.proto, addr |-> conf.addr]

\* Line 174.
RunReady ==
    /\ proc = "alive"
    /\ pc = "ready"
    /\ out' = output("ready", ReadyValue)
    /\ pc' = "accept"
    /\ runs' = SetState("serving")
    /\ UNCHANGED <<proc, exitCode, secret, objs, engine, conf, running, alloc,
                   i, err, listening, taken, tried, reg, regLog, conns,
                   acceptErrs, authT, tcpT,
                   exitCalls>>

\* Faulty variant of AcceptReady: serveConn is called without go, the loop
\* returns to Accept when the handler has finished.
AcceptReadyInline == \A c \in 1..Len(conns) : conns[c].pc = "closed"

\* Line 182: go r.serveConn(conn), the loop returns to Accept at once,
\* whatever the handlers started before are doing.
AcceptReady == TRUE

\* Lines 177 and 182: Accept returns a connection, go r.serveConn(conn).
AcceptConn(stream) ==
    /\ proc = "alive"
    /\ pc = "accept"
    /\ AcceptReady
    /\ Len(conns) < MaxConns
    /\ conns' = Append(conns, [data |-> stream.data, eof |-> stream.eof,
                               pc |-> "auth", ok |-> FALSE, nread |-> 0,
                               served |-> FALSE, wrote |-> FALSE,
                               open |-> TRUE, closer |-> 0])
    /\ runs' = [runs EXCEPT ![Len(runs)].accepted = @ + 1]
    /\ err' = "nil"
    /\ UNCHANGED <<proc, exitCode, secret, objs, engine, conf, running, pc,
                   alloc, i, listening, out, taken, tried, reg, regLog,
                   acceptErrs, authT, tcpT,
                   exitCalls>>

\* Faulty variant of AfterAcceptErr: the error is returned to the caller.
AfterAcceptErrReturns == "returned"

\* Line 180: continue, the loop calls Accept again.
AfterAcceptErr == "accept"

\* Lines 177-181: Accept returns an error.
AcceptErr ==
    /\ proc = "alive"
    /\ pc = "accept"
    /\ AcceptReady
    /\ acceptErrs < MaxAcceptErrs
    /\ out' = output("fatal", [code |-> "err-http-serve",
                               msg |-> "accept failed"])
    /\ err' = "accept failed"
    /\ acceptErrs' = acceptErrs + 1
    /\ pc' = AfterAcceptErr
    /\ UNCHANGED <<proc, exitCode, secret, objs, engine, conf, running,
                   alloc, i, listening, taken, tried, runs, reg, regLog,
                   conns, authT, tcpT,
                   exitCalls>>

(***************************************************************************)
(* rpcServer.serveConn (lines 94-99), one handler per accepted connection.  *)
(***************************************************************************)
\* Line 95, the call of authConn: it returns once io.ReadFull returns.
AuthStep(c) ==
    /\ proc = "alive"
    /\ c \in 1..Len(conns)
    /\ conns[c].pc = "auth"
    /\ ReadFullReturns(conns[c])
    /\ conns' = [conns EXCEPT ![c].pc = "authed",
                              ![c].ok = authConn(conns[c], secret),
                              ![c].nread = ReadFullCount(conns[c])]
    /\ UNCHANGED <<proc, exitCode, secret, objs, engine, conf, running, pc,
                   alloc, i, err, listening, out, taken, tried, runs, reg,
                   regLog, acceptErrs, authT, tcpT,
                   exitCalls>>

\* Faulty variant of Serves: the result of authConn is not tested.
ServesUnchecked(cn) == TRUE

\* Whether serveConn hands a connection to the engine.
Serves(cn) == cn.ok

\* Lines 95-96: the connection is handed to rpc.Server.ServeConn.
ServeStep(c) ==
    /\ proc = "alive"
    /\ c \in 1..Len(conns)
    /\ conns[c].pc = "authed"
    /\ Serves(conns[c])
    /\ conns' = [conns EXCEPT ![c].pc = "serving", ![c].served = TRUE]
    /\ UNCHANGED <<proc, exitCode, secret, objs, engine, conf, running, pc,
                   alloc, i, err, listening, out, taken, tried, runs, reg,
                   regLog, acceptErrs, authT, tcpT,
                   exitCalls>>

\* Line 96: the engine reads a request from the connection it serves and
\* writes the reply to it.
EngineReply(c) ==
    /\ proc = "alive"
    /\ c \in 1..Len(conns)
    /\ conns[c].pc = "serving"
    /\ ~conns[c].wrote
    /\ conns' = [conns EXCEPT ![c].wrote = TRUE]
    /\ UNCHANGED <<proc, exitCode, secret, objs, engine, conf, running, pc,
                   alloc, i, err, listening, out, taken, tried, runs, reg,
                   regLog, acceptErrs, authT, tcpT,
                   exitCalls>>

\* Faulty variant of CloseTarget: every handler closes the connection
\* accepted first.
CloseTargetFirst(c) == 1

\* The connection that handler c closes: conn is a parameter of serveConn,
\* bound to the connection the handler was started with.
CloseTarget(c) == c

\* Line 98: conn.Close(), after ServeConn has returned or was skipped.
CloseStep(c) ==
    /\ proc = "alive"
    /\ c \in 1..Len(conns)
    /\ \/ conns[c].pc = "serving"
       \/ conns[c].pc = "authed" /\ ~Serves(conns[c])
    /\ conns' = [conns EXCEPT ![c].pc = "closed",
                              ![CloseTarget(c)].open = FALSE,
                              ![CloseTarget(c)].closer = c]
    /\ UNCHANGED <<proc, exitCode, secret, objs, engine, conf, running, pc,
                   alloc, i, err, listening, out, taken, tried, runs, reg,
                   regLog, acceptErrs, authT, tcpT,
                   exitCalls>>

\* Faulty variant of ExitCode: the process ends with the status of success.
ExitCodeZero(status) == 0

\* Line 43: os.Exit(status).
ExitCode(status) == status

\* PingoRpc.Exit (lines 41-45), called by the engine for a peer that is
\* being served.
Exit(c, status) ==
    /\ proc = "alive"
    /\ c \in 1..Len(conns)
    /\ conns[c].pc = "serving"
    /\ "PingoRpc" \in engine
    /\ proc' = "exited"
    /\ exitCode' = ExitCode(status)
    /\ exitCalls' = Append(exitCalls, status)
    /\ UNCHANGED <<secret, objs, engine, conf, running, pc, alloc, i, err,
                   listening, out, taken, tried, runs, reg, regLog, conns,
                   acceptErrs, authT, tcpT>>

\* PingoRpc.Exit (lines 41-45), called by the plugin's own code on the
\* object NewPingoRpc returns (lines 37-39), at any moment.
ExitDirect(status) ==
    /\ proc = "alive"
    /\ proc' = "exited"
    /\ exitCode' = ExitCode(status)
    /\ exitCalls' = Append(exitCalls, status)
    /\ UNCHANGED <<secret, objs, engine, conf, running, pc, alloc, i, err,
                   listening, out, taken, tried, runs, reg, regLog, conns,
                   acceptErrs, authT, tcpT>>

(***************************************************************************)
(* The plugin's main goroutine calls Register and Run one after the other,  *)
(* as the package documents: a Register call returns before Run is called,  *)
(* and the next call can only follow a Run that returned.                   *)
(***************************************************************************)
MainRegister(obj) ==
    /\ pc \in {"idle", "returned"}
    /\ RegisterCall(obj)

MainRun ==
    /\ reg.pc = "idle"
    /\ RunEnter

Next ==
    \/ \E obj \in Objects : MainRegister(obj)
    \/ RegisterDo
    \/ MainRun
    \/ RunObjects
    \/ RunSwitch
    \/ \E name \in RandStr(NameLen) : RunListen(name)
    \/ RunLoopEnd
    \/ RunFail
    \/ RunToken
    \/ RunReady
    \/ \E stream \in Streams(secret) : AcceptConn(stream)
    \/ AcceptErr
    \/ \E c \in 1..MaxConns : AuthStep(c)
    \/ \E c \in 1..MaxConns : ServeStep(c)
    \/ \E c \in 1..MaxConns : EngineReply(c)
    \/ \E c \in 1..MaxConns : CloseStep(c)
    \/ \E c \in 1..MaxConns, status \in ExitStatuses : Exit(c, status)

Spec == Init /\ [][Next]_vars

\* The same program under a fair scheduler: every handler is a goroutine
\* of its own (line 182), and a goroutine that can take a step is
\* eventually run.
Fairness ==
    \A c \in 1..MaxConns :
        /\ WF_vars(AuthStep(c))
        /\ WF_vars(ServeStep(c))

\* One environment in which the first bind succeeds, and the steps of Run,
\* of the handlers and of the engine.
InitFair ==
    /\ \E s \in OneSecret : newRpcServer(s, "tcp", "", TcpTakenFirst(0))
    /\ authT = IdleAuthT
    /\ tcpT = IdleTcpT

NextFair ==
    \/ MainRun
    \/ RunObjects
    \/ RunSwitch
    \/ \E name \in RandStr(NameLen) : RunListen(name)
    \/ RunToken
    \/ RunReady
    \/ \E stream \in Streams(secret) : AcceptConn(stream)
    \/ AcceptErr
    \/ \E c \in 1..MaxConns : AuthStep(c)
    \/ \E c \in 1..MaxConns : ServeStep(c)
    \/ \E c \in 1..MaxConns : EngineReply(c)
    \/ \E c \in 1..MaxConns : CloseStep(c)
    \/ \E c \in 1..MaxConns, status \in ExitStatuses : Exit(c, status)

SpecFair == InitFair /\ [][NextFair]_vars /\ Fairness

\* The same environment, with Exit also called from the plugin's own code.
NextExit ==
    \/ NextFair
    \/ \E status \in ExitStatuses : ExitDirect(status)

SpecExit == InitFair /\ [][NextExit]_vars

\* The bootstrap alone, in more environments: registration and run up to
\* the ready line.
NextBoot ==
    \/ \E obj \in Objects : MainRegister(obj)
    \/ RegisterDo
    \/ MainRun
    \/ RunObjects
    \/ RunSwitch
    \/ \E name \in RandStr(NameLen) : RunListen(name)
    \/ RunLoopEnd
    \/ RunFail
    \/ RunToken
    \/ RunReady

SpecBoot == InitBoot /\ [][NextBoot]_vars

\* Register called from a goroutine of its own, at any moment of Run.
NextConc ==
    \/ \E obj \in Objects : RegisterCall(obj)
    \/ RegisterDo
    \/ RunEnter
    \/ RunObjects
    \/ RunSwitch
    \/ \E name \in RandStr(NameLen) : RunListen(name)
    \/ RunLoopEnd
    \/ RunFail
    \/ RunToken
    \/ RunReady
    \/ \E stream \in Streams(secret) : AcceptConn(stream)
    \/ AcceptErr
    \/ \E c \in 1..MaxConns : AuthStep(c)
    \/ \E c \in 1..MaxConns : ServeStep(c)
    \/ \E c \in 1..MaxConns : EngineReply(c)
    \/ \E c \in 1..MaxConns : CloseStep(c)
    \/ \E c \in 1..MaxConns, status \in ExitStatuses : Exit(c, status)

SpecConc == Init /\ [][NextConc]_vars

(***************************************************************************)
(* authConn on its own: any secret of SecretLen bytes, NUL bytes included,  *)
(* and any stream.                                                          *)
(***************************************************************************)
Cuts(n) == {0, 1, n - 1} \cap (0..n)

ByteStrings(n) == {Fill(n, k, x, y) : k \in Cuts(n), x \in Bytes, y \in Bytes}

AuthSecrets == ByteStrings(SecretLen)

AuthStreams ==
    [data : UNION {ByteStrings(n) : n \in {0, 1, BufLen - 1, BufLen, BufLen + 1}},
     eof : BOOLEAN]

InitAuth ==
    /\ newRpcServer(Fill(SecretLen, SecretLen, 97, 97), "unix", "", {})
    /\ \E s \in AuthSecrets, c \in AuthStreams :
          authT = [secret |-> s, conn |-> c, done |-> FALSE, res |-> FALSE]
    /\ tcpT = IdleTcpT

\* authConn(conn) on a server whose secret is authT.secret.
AuthApply ==
    /\ ~authT.done
    /\ ReadFullReturns(authT.conn)
    /\ authT' = [authT EXCEPT !.done = TRUE,
                              !.res = authConn(authT.conn, authT.secret)]
    /\ UNCHANGED <<serverVars, tcpT>>

NextAuth == AuthApply

SpecAuth == InitAuth /\ [][NextAuth]_vars

(***************************************************************************)
(* tcp.addr on its own: any starting cursor, up to MaxCalls calls.          *)
(***************************************************************************)
TcpStarts ==
    {MinInt, MinInt + 1, -MinPort, -1, 0, 1, MinPort - 2, MinPort - 1, MinPort,
     MinPort + 1, MinPort + TcpRetries, 65535, 65536}
    \cup {MaxInt - k : k \in 0..(MaxCalls + 1)}

InitTcp ==
    /\ newRpcServer(Fill(SecretLen, SecretLen, 97, 97), "tcp", "", {})
    /\ authT = IdleAuthT
    /\ \E t \in TcpStarts : tcpT = [start |-> t, t |-> t, calls |-> <<>>]

\* One call of (*tcp).addr: the cursor moves, the port is returned.
TcpCall ==
    /\ Len(tcpT.calls) < MaxCalls
    /\ tcpT' = [tcpT EXCEPT !.t = tcpNext(tcpT.t),
                            !.calls = Append(@, [before |-> tcpT.t,
                                                 port |-> tcpAddr(tcpT.t).port])]
    /\ UNCHANGED <<serverVars, authT>>

NextTcp == TcpCall

SpecTcp == InitTcp /\ [][NextTcp]_vars

(***************************************************************************)
(* C1.  For every secret S of 64 bytes, NUL bytes included, and every       *)
(* stream, authConn returns true exactly when the stream delivers at least  *)
(* 64 bytes and its first 64 bytes are S; a stream that ends before 64      *)
(* bytes yields false.                                                      *)
(***************************************************************************)
FirstBytesAre(conn, s) ==
    Len(conn.data) >= BufLen /\ SubSeq(conn.data, 1, BufLen) = s

C1_AuthIffFirst64Equal ==
    authT.done => (authT.res <=> FirstBytesAre(authT.conn, authT.secret))

(***************************************************************************)
(* C7.  From the zero cursor the k-th call of tcp.addr returns port         *)
(* 1023 + k, every call returns one more than the call before it, and from  *)
(* any starting cursor, negative ones included, no returned port is below   *)
(* 1024.                                                                    *)
(***************************************************************************)
TcpCallsFine(calls, start, ks) ==
    \A k \in ks :
        /\ calls[k].port >= MinPort
        /\ k > 1 => calls[k].port = calls[k - 1].port + 1
        /\ start = 0 => calls[k].port = MinPort - 1 + k

C7_TcpPortsAnyCursor ==
    TcpCallsFine(tcpT.calls, tcpT.start, 1..Len(tcpT.calls))

\* C7 as amended: the same, for the calls made until the cursor reaches
\* the largest int; the call made at the largest int wraps around.
C7_TcpPortsBelowMaxInt ==
    TcpCallsFine(tcpT.calls, tcpT.start,
                 {k \in 1..Len(tcpT.calls) :
                     \A j \in 1..k : tcpT.calls[j].before < MaxInt})

C7_Witness ==
    /\ tcpT.start < 0
    /\ Len(tcpT.calls) >= 2
    /\ tcpT.calls[2].port = MinPort + 1

(***************************************************************************)
(* Helpers of the statements about run.                                     *)
(***************************************************************************)
Last(q) == q[Len(q)]

Keys(lines) == [k \in 1..Len(lines) |-> lines[k].key]

\* The handshake lines written by the k-th call of Run.
RunLines(k) ==
    SubSeq(out, runs[k].start + 1,
           IF k < Len(runs) THEN runs[k + 1].start ELSE Len(out))

\* The lines of the call of Run in progress (or the last one made).
CurLines == RunLines(Len(runs))

AllFailed(q) == \A k \in 1..Len(q) : ~q[k].ok

(***************************************************************************)
(* C2.  Every Register call made before Run has been entered completes      *)
(* without aborting; every Register call made after Run has been entered    *)
(* panics and leaves the exposed-object list unchanged.                     *)
(***************************************************************************)
C2_RegisterBeforeOkAfterPanics ==
    \A k \in 1..Len(regLog) :
        /\ ~regLog[k].running => regLog[k].result # "panic"
        /\ regLog[k].running =>
              regLog[k].result = "panic" /\ regLog[k].after = regLog[k].before

(***************************************************************************)
(* C3.  Once running is true, the exposed-object list and the               *)
(* configuration (proto, addr, prefix, unixdir) keep the values they had    *)
(* when running became true: no step changes them.                          *)
(***************************************************************************)
C3_FrozenOnceRunning ==
    [][running => (objs' = objs /\ conf' = conf)]_vars

(***************************************************************************)
(* C4.  The value written as auth-token is the secret authConn compares     *)
(* against: a peer that writes the 64 bytes of the token is authenticated,  *)
(* a peer that writes anything else is not.                                 *)
(***************************************************************************)
Tokens == Keyed(out, "auth-token")

C4_TokenIsTheSecretChecked ==
    /\ \A k \in 1..Len(Tokens) : Tokens[k].val = secret
    /\ \A c \in 1..Len(conns) :
          conns[c].pc # "auth" =>
              /\ Tokens # <<>>
              /\ conns[c].ok <=> FirstBytesAre(conns[c], Tokens[1].val)

C4_Witness ==
    \E c, d \in 1..Len(conns) :
        /\ conns[c].pc = "serving" /\ conns[c].ok
        /\ conns[d].pc = "closed" /\ ~conns[d].ok /\ conns[d].eof

(***************************************************************************)
(* C5.  Run tries the candidates in the order they are generated, stops at  *)
(* the first one whose bind succeeds and uses that address, and reports     *)
(* failure exactly when none of the first retry-limit candidates is free.   *)
(* For unix the limit is 4: three taken and the fourth free succeeds on the *)
(* fourth, four taken fails after 4 attempts with 4 in the fatal line.      *)
(***************************************************************************)
LimitOf(scheme) == IF scheme = "tcp" THEN 500 ELSE 4

Limit == LimitOf(alloc.kind)

C5_BindStopsAtFirstFree ==
    /\ \A k \in 1..Len(tried) :
          /\ tried[k].ok <=> tried[k].addr \notin taken
          /\ k < Len(tried) => ~tried[k].ok
    /\ tried # <<>> => Len(tried) <= Limit /\ conf.addr = Last(tried).addr
    /\ pc \in {"ready", "accept"} =>
          tried # <<>> /\ Last(tried).ok /\ listening = Last(tried).addr
    /\ pc = "afterloop" =>
          (err # "nil" <=> (Len(tried) = Limit /\ AllFailed(tried)))
    /\ pc = "returned" =>
          /\ Len(tried) = Limit /\ AllFailed(tried)
          /\ Last(out).key = "fatal" /\ Last(out).val.attempts = Limit

C5_Witness ==
    /\ alloc.kind = "unix"
    /\ pc = "ready"
    /\ Len(tried) = 4
    /\ \A k \in 1..3 : tried[k].addr \in taken
    /\ tried[4].addr \notin taken
    /\ conf.addr = tried[4].addr

(***************************************************************************)
(* C6.  With tcp, Run binds the ports 1024, 1025, ..., 1523 in increasing   *)
(* order and never tries port 1524 or higher: with 1024..1523 taken it      *)
(* reports failure with the count 500, also when port 1524 is free.         *)
(***************************************************************************)
C6_TcpScansFiveHundredPorts ==
    alloc.kind = "tcp" =>
        /\ Len(tried) <= 500
        /\ \A k \in 1..Len(tried) :
              tried[k].proto = "tcp" /\ tried[k].addr = TcpAddress(1023 + k)
        /\ (pc = "returned" /\ Last(out).key = "fatal") =>
              Len(tried) = 500 /\ Last(out).val.attempts = 500
        /\ pc \in {"ready", "accept"} => ~(TcpTakenFirst(500) \subseteq taken)

C6_Witness ==
    /\ alloc.kind = "tcp"
    /\ pc = "returned"
    /\ Len(tried) = 500
    /\ Last(tried).addr = TcpAddress(1523)
    /\ TcpAddress(1524) \notin taken

(***************************************************************************)
(* C8.  In a call of Run that binds, the handshake channel receives the     *)
(* objects line (before the first bind attempt), then auth-token, then      *)
(* ready; auth-token and ready once each; no accept before ready; the       *)
(* scheme and address of the ready line are those of the bind attempt that  *)
(* succeeded.                                                               *)
(***************************************************************************)
C8_HandshakeOrder ==
    runs # <<>> =>
        /\ tried # <<>> =>
              /\ tried[1].outLen > runs[Len(runs)].start
              /\ CurLines[1].key = "objects"
        /\ pc = "ready" => Keys(CurLines) = <<"objects", "auth-token">>
        /\ pc = "accept" =>
              /\ SubSeq(Keys(CurLines), 1, 3) = <<"objects", "auth-token", "ready">>
              /\ \A k \in 4..Len(CurLines) : CurLines[k].key = "fatal"
              /\ CurLines[3].val = [proto |-> Last(tried).proto,
                                    addr |-> Last(tried).addr]
              /\ Last(tried).ok
              /\ listening = CurLines[3].val.addr
        /\ (conns # <<>> \/ acceptErrs > 0 \/ Last(runs).accepted > 0) =>
              /\ pc = "accept"
              /\ Len(Keyed(out, "ready")) = 1
              /\ Len(Keyed(out, "auth-token")) = 1

C8_Witness ==
    /\ pc = "accept"
    /\ conns # <<>>
    /\ acceptErrs > 0
    /\ Len(tried) > 1
    /\ Last(out).key = "fatal"

(***************************************************************************)
(* C9.  When every bind attempt fails, Run writes one fatal line with the   *)
(* connection-failed code, the scheme's retry limit as the count and the    *)
(* scheme name, returns a non-nil error without ending the process, never   *)
(* writes auth-token or ready and never accepts.                            *)
(***************************************************************************)
C9_BindFailureReported ==
    \A k \in 1..Len(runs) :
        runs[k].state = "failed" =>
            /\ Keys(RunLines(k)) = <<"objects", "fatal">>
            /\ RunLines(k)[2].val =
                  [code |-> "errorCodeConnFailed",
                   attempts |-> LimitOf(runs[k].proto),
                   proto |-> IF runs[k].proto = "tcp" THEN "tcp" ELSE "unix"]
            /\ runs[k].accepted = 0
            /\ conns = <<>> /\ acceptErrs = 0
            /\ k = Len(runs) =>
                  pc = "returned" /\ err # "nil" /\ proc # "exited"

C9_Witness ==
    /\ pc = "returned"
    /\ Len(runs) = 2
    /\ Len(tried) = 500
    /\ AllFailed(tried)
    /\ proc = "alive"

(***************************************************************************)
(* C10.  With any number of connections handled at once, a connection is    *)
(* handed to rpc.Server.ServeConn only after its own authentication has     *)
(* succeeded, a connection whose authentication failed is never handed      *)
(* over, and the result for one connection does not depend on another.      *)
(***************************************************************************)
C10_ServedOnlyAfterOwnAuth ==
    \A c \in 1..Len(conns) :
        /\ conns[c].pc = "auth" => ~conns[c].served
        /\ conns[c].served => conns[c].ok
        /\ conns[c].pc = "serving" => conns[c].served
        /\ conns[c].pc # "auth" =>
              (conns[c].ok <=> FirstBytesAre(conns[c], secret))

C10_Witness ==
    \E c, d \in 1..Len(conns) :
        /\ c < d
        /\ conns[c].pc = "authed" /\ ~conns[c].ok
        /\ conns[d].pc = "serving"

(***************************************************************************)
(* Claims about the connection handlers and the accept loop.                *)
(***************************************************************************)
\* C11: a handler that has finished, after a failed authentication or
\* after the engine returned, has closed its own connection, and a
\* connection is closed by no handler but its own.
C11_HandlerClosesOwnConn ==
    \A c \in 1..Len(conns) :
        /\ conns[c].pc = "closed" => ~conns[c].open
        /\ conns[c].open <=> conns[c].closer = 0
        /\ ~conns[c].open => conns[c].closer = c /\ conns[c].pc = "closed"

\* Two handlers have finished, the first after a failed authentication and
\* the second after serving.
C11_Witness ==
    /\ Len(conns) = 2
    /\ conns[1].pc = "closed" /\ ~conns[1].served
    /\ conns[2].pc = "closed" /\ conns[2].served

\* C12: the only step a handler takes after its authentication failed is
\* closing its connection: nothing is written to the connection, nothing
\* more is read from it, no line is emitted and no server state changes.
C12_RejectOnlyCloses ==
    [][\A c \in 1..Len(conns) :
          (conns[c].pc = "authed" /\ ~conns[c].ok /\ conns'[c] # conns[c]) =>
              /\ conns' = [conns EXCEPT ![c].pc = "closed",
                                        ![c].open = FALSE,
                                        ![c].closer = c]
              /\ ~conns'[c].wrote /\ ~conns'[c].served
              /\ conns'[c].nread <= BufLen
              /\ out' = out
              /\ UNCHANGED <<proc, exitCode, secret, objs, engine, conf,
                             running, pc, err, listening, runs,
                             acceptErrs>>]_vars

\* A connection that failed authentication after a short read has been
\* closed while the server goes on accepting.
C12_Witness ==
    \E c \in 1..Len(conns) :
        /\ conns[c].pc = "closed" /\ ~conns[c].ok
        /\ conns[c].nread < BufLen
        /\ pc = "accept"

(***************************************************************************)
(* Claims about the bind addresses and the accept loop.                     *)
(***************************************************************************)
\* C13: every candidate address of the unix scheme is the configured
\* directory joined with an 8-character name, and the bare name when no
\* directory is configured.
C13_UnixCandidatesUnderUnixdir ==
    \A k \in 1..Len(tried) :
        tried[k].proto = "unix" =>
            /\ tried[k].addr.dir = conf.unixdir
            /\ Len(tried[k].addr.name) = NameLen

\* C14: once the bind succeeded Run stays in the accept loop. An accept
\* error emits exactly one fatal line with the code err-http-serve, starts
\* no handler and leads to the next Accept; a successful accept emits
\* nothing and starts exactly one handler, for the connection accepted.
C14_AcceptLoopNeverReturns ==
    [][/\ pc = "accept" => pc' = "accept"
       /\ err' = "accept failed" /\ acceptErrs' # acceptErrs =>
              /\ acceptErrs' = acceptErrs + 1
              /\ out' = Append(out, Line(conf.prefix, "fatal",
                                         [code |-> "err-http-serve",
                                          msg |-> "accept failed"]))
              /\ conns' = conns
       /\ Len(conns') # Len(conns) =>
              /\ pc = "accept"
              /\ Len(conns') = Len(conns) + 1
              /\ SubSeq(conns', 1, Len(conns)) = conns
              /\ conns'[Len(conns')].pc = "auth"
              /\ runs'[Len(runs)].accepted = Len(conns')
              /\ out' = out /\ acceptErrs' = acceptErrs]_vars

\* Accept failed twice in a row after a connection had been accepted, and
\* the next connection was accepted afterwards.
C14_Witness ==
    /\ pc = "accept" /\ Len(conns) = 2 /\ acceptErrs = 2
    /\ Len(out) = 5
    /\ out[4].key = "fatal" /\ out[5].key = "fatal"
    /\ err = "nil"

\* C15: while the server is in the accept loop Accept can be called,
\* whatever the handlers of earlier connections are doing; and under a
\* fair scheduler a connection that delivers the secret is handed to the
\* engine, unless the process ends first.
C15_StalledPeersBlockNobody ==
    /\ [](proc = "alive" /\ pc = "accept" /\ Len(conns) < MaxConns =>
             ENABLED (\E stream \in Streams(secret) : AcceptConn(stream)))
    /\ \A d \in 1..MaxConns :
           (Len(conns) >= d /\ conns[d].pc = "auth" /\ conns[d].data = secret)
               ~> ((Len(conns) >= d /\ conns[d].served) \/ proc # "alive")

\* A first connection is stalled in its authentication and a later one is
\* being served; or a first one is being served and a later one as well.
C15_Witness ==
    /\ Len(conns) = 2
    /\ conns[2].pc = "serving"
    /\ \/ conns[1].pc = "auth" /\ ~ReadFullReturns(conns[1])
       \/ conns[1].pc = "serving"
    /\ proc = "alive"

\* C16: a call of Exit with the status s ends the process with the exit
\* code s, in whatever state the server is; the call writes no reply, and
\* once the process has exited nothing changes any more.
C16_ExitEndsProcessWithStatus ==
    /\ [](exitCalls # <<>> =>
             /\ Len(exitCalls) = 1
             /\ proc = "exited"
             /\ exitCode = exitCalls[1])
    /\ [][/\ proc # "exited"
          /\ exitCalls' # exitCalls => conns' = conns /\ out' = out]_vars

\* Exit has been called before the bind, with the status 7.
C16_WitnessBeforeBind ==
    /\ proc = "exited" /\ exitCode = 7
    /\ pc = "loop" /\ tried = <<>>

(***************************************************************************)
(* Claims about Register racing with Run, and about the bootstrap.          *)
(***************************************************************************)
\* C17: with Register called while Run is being entered, every object
\* bound to the engine is named in the objects line: once the line is
\* written the engine holds nothing that the line does not list.
C17_EngineWithinObjectsLine ==
    \A k \in 1..Len(out) :
        out[k].key = "objects" =>
            \A n \in engine : \E j \in 1..Len(out[k].val) : out[k].val[j] = n

\* C18: the address of the configuration is empty as long as no bind has
\* succeeded, during the retry loop and after a failed Run too, and is the
\* bound address afterwards.
C18_AddrEmptyUntilBound ==
    /\ listening = NoAddr => conf.addr = NoAddr
    /\ listening # NoAddr => conf.addr = listening

\* C19: whatever calls of Run are made, a second one after a failed bind
\* included, the objects line is written once and the bind loop is run
\* once.
C19_BootstrapOnce ==
    /\ Len(Keyed(out, "objects")) <= 1
    /\ Len(runs) > 1 => tried = <<>>

\* C20: Run uses the tcp scheme exactly when the configured proto is
\* "tcp". For every other value the candidates are unix socket names, at
\* most 4 of them are tried, the bind is made with the scheme unix, and
\* the ready line or the fatal line of the failed bind reports unix.
C20_SchemeTcpIffConfiguredTcp ==
    runs # <<>> /\ pc \notin {"objects", "switch"} =>
        LET cfg == runs[1].proto
            scheme == IF cfg = "tcp" THEN "tcp" ELSE "unix"
        IN /\ alloc.kind = scheme
           /\ conf.proto = scheme
           /\ Len(tried) <= (IF cfg = "tcp" THEN TcpRetries ELSE UnixRetries)
           /\ \A k \in 1..Len(tried) :
                  /\ tried[k].proto = scheme
                  /\ (tried[k].addr.host = "127.0.0.1") <=> cfg = "tcp"
                  /\ (Len(tried[k].addr.name) = NameLen) <=> cfg # "tcp"
           /\ \A k \in 1..Len(out) :
                  out[k].key \in {"ready", "fatal"} => out[k].val.proto = scheme

\* Configured with a value that is neither tcp nor unix, Run has failed
\* after 4 attempts on unix socket names and has reported the scheme unix.
C20_Witness ==
    /\ runs # <<>> /\ runs[1].proto \in {"udp", ""}
    /\ out # <<>> /\ Last(out).key = "fatal" /\ Last(out).val.proto = "unix"
    /\ Len(tried) = UnixRetries /\ AllFailed(tried)
    /\ \A k \in 1..Len(tried) : tried[k].proto = "unix"

====
